---------------------------- MODULE Spec2Model ----------------------------
(***************************************************************************)
(* State-machine model of the web composer text input                      *)
(* (src/view/com/composer/text-input/TextInput.web.tsx).                   *)
(*                                                                         *)
(* The component glues a tiptap editor to application callback props.      *)
(* Modelled here: the memoized event emitter and the two effects that      *)
(* register the publish / photo-pasted listeners, the editor created by    *)
(* useEditor with deps [modeClass, emitter] (so the editor's option        *)
(* closures are those of the render that created it), the keydown, paste   *)
(* and update handlers, the asynchronous image conversions started by a    *)
(* paste, and the two pure converters editorJsonToText/editorJsonToLinks.  *)
(***************************************************************************)
EXTENDS Integers, Sequences, FiniteSets, TLC

VARIABLES
    phase,          \* "mounted" | "unmounted"
    props,          \* props of the latest committed render
    effectsPending, \* a render has committed, its effects have not run yet
    effDeps,        \* dependency values each effect last ran with (<<>> = never)
    listeners,      \* the emitter: event name -> sequence of listeners
    editor,         \* the tiptap editor instance held by useEditor
    ops,            \* asynchronous work started by pasted clipboard items
    calls,          \* application callbacks invoked by the latest step
    last,           \* the latest step: which handler ran, on what input
    doc,            \* the editor's current document (getJSON)
    tree,           \* input of the pure converters
    fnText,         \* <<editorJsonToText(tree)>> once applied, else <<>>
    fnLinks         \* <<editorJsonToLinks(tree)>> once applied, else <<>>

vars == <<phase, props, effectsPending, effDeps, listeners, editor, ops,
          calls, last, doc, tree, fnText, fnLinks>>

(***************************************************************************)
(* Bounds                                                                  *)
(***************************************************************************)
\* clipboard items pasted over one run, all paste events together
MaxItems == 2
\* nodes of an editor JSON tree
MaxNodes == 3

(***************************************************************************)
(* Props                                                                   *)
(***************************************************************************)
PublishCbs == {"publishA", "publishB"}
PhotoCbs == {"photoA", "photoB"}
ModeClasses == {"ProseMirror-light", "ProseMirror-dark"}
Hrefs == {"x", "y"}

InitProps ==
    [onPressPublish |-> "publishA", onPhotoPasted |-> "photoA",
     modeClass |-> "ProseMirror-light", suggestedLinks |-> {}]

NoCalls ==
    [onPressPublish |-> <<>>, onPhotoPasted |-> <<>>, setRichText |-> <<>>,
     onSuggestedLinksChanged |-> <<>>, onError |-> <<>>]

NoKey == [metaKey |-> FALSE, ctrlKey |-> FALSE, code |-> "none"]

NoStep == [ev |-> "none", key |-> NoKey, clip |-> FALSE, items |-> <<>>,
           before |-> 0, op |-> 0]

(***************************************************************************)
(* eventemitter3                                                           *)
(***************************************************************************)
AddListener(ls, fn) == Append(ls, fn)

\* removeListener drops every registration of fn for the event
RemoveListener(ls, fn) == SelectSeq(ls, LAMBDA x : x # fn)

\* emit calls every listener once, in registration order; the result is the
\* sequence of listeners called
Emit(ls) == ls

(***************************************************************************)
(* Effects (lines 60-71) and useEditor (lines 73-135)                      *)
(***************************************************************************)
PublishDepsChanged == effDeps.publish # <<props.onPressPublish>>
PhotoDepsChanged == effDeps.photo # <<props.onPhotoPasted>>

EditorDepsChangedOnCallbacks ==
    \/ effDeps.editor # <<props.modeClass>>
    \/ PublishDepsChanged
    \/ PhotoDepsChanged

\* deps [modeClass, emitter]; the emitter is memoized with no deps
EditorDepsChanged == effDeps.editor # <<props.modeClass>>

\* the cleanup of an effect removes the callback that effect added
Cleanup(ls, dep) ==
    IF dep = <<>> THEN ls ELSE RemoveListener(ls, dep[1])

RunListenerEffect(ls, dep, fn) == AddListener(Cleanup(ls, dep), fn)

\* the options object, closures included, is read when the editor is made
NewEditor == [alive |-> TRUE, inst |-> 1 - editor.inst, closure |-> props]

Render(p) ==
    /\ phase = "mounted"
    /\ ~effectsPending
    /\ p # props
    /\ props' = p
    /\ effectsPending' = TRUE
    /\ calls' = NoCalls
    /\ last' = [NoStep EXCEPT !.ev = "render"]
    /\ UNCHANGED <<phase, effDeps, listeners, editor, ops, doc, tree,
                   fnText, fnLinks>>

\* all effects of one commit run in one synchronous pass
FlushEffects ==
    /\ phase = "mounted"
    /\ effectsPending
    /\ listeners' =
         [publish |->
            IF PublishDepsChanged
            THEN RunListenerEffect(listeners.publish, effDeps.publish,
                                   props.onPressPublish)
            ELSE listeners.publish,
          photo |->
            IF PhotoDepsChanged
            THEN RunListenerEffect(listeners.photo, effDeps.photo,
                                   props.onPhotoPasted)
            ELSE listeners.photo]
    /\ editor' = IF EditorDepsChanged THEN NewEditor ELSE editor
    /\ effDeps' = [publish |-> <<props.onPressPublish>>,
                   photo |-> <<props.onPhotoPasted>>,
                   editor |-> <<props.modeClass>>]
    /\ effectsPending' = FALSE
    /\ calls' = NoCalls
    /\ last' = [NoStep EXCEPT !.ev = "effects"]
    /\ UNCHANGED <<phase, props, ops, doc, tree, fnText, fnLinks>>

\* unmount: every effect's cleanup runs, the editor is destroyed
Unmount ==
    /\ phase = "mounted"
    /\ ~effectsPending
    /\ phase' = "unmounted"
    /\ listeners' = [publish |-> Cleanup(listeners.publish, effDeps.publish),
                     photo |-> Cleanup(listeners.photo, effDeps.photo)]
    /\ editor' = [editor EXCEPT !.alive = FALSE]
    /\ calls' = NoCalls
    /\ last' = [NoStep EXCEPT !.ev = "unmount"]
    /\ UNCHANGED <<props, effectsPending, effDeps, ops, doc, tree,
                   fnText, fnLinks>>

(***************************************************************************)
(* handleKeyDown (lines 111-115)                                           *)
(***************************************************************************)
KeyEvents ==
    [metaKey : BOOLEAN, ctrlKey : BOOLEAN, code : {"Enter", "KeyA"}]

IsPublishKeyOnAnyEnter(e) == e.code = "Enter"

IsPublishKey(e) == (e.metaKey \/ e.ctrlKey) /\ e.code = "Enter"

\* emitter.emit('publish')
EmitPublish == Emit(listeners.publish)

KeyDown(e) ==
    /\ editor.alive
    /\ calls' = [NoCalls EXCEPT !.onPressPublish =
                    IF IsPublishKey(e) THEN EmitPublish ELSE <<>>]
    /\ last' = [NoStep EXCEPT !.ev = "keydown", !.key = e]
    /\ UNCHANGED <<phase, props, effectsPending, effDeps, listeners, editor,
                   ops, doc, tree, fnText, fnLinks>>

(***************************************************************************)
(* handlePaste (lines 100-110) and getImageFromUri (lines 195-223)         *)
(***************************************************************************)
ImageUri == "http://h/a.png"

\* lib/media/util isUriImage, used as a predicate on the pasted string
isUriImage(str) == str = ImageUri

FileBlob == [type |-> "application/octet-stream", bytes |-> "FILEBYTES"]

\* DataTransferItem: kind, type, the string it carries (kind 'string') and
\* what getAsFile returns (<<>> is null)
Items ==
    { [kind |-> "string", type |-> "text/plain", str |-> ImageUri, file |-> <<>>],
      [kind |-> "string", type |-> "text/plain", str |-> "hello", file |-> <<>>],
      [kind |-> "string", type |-> "text/html", str |-> ImageUri, file |-> <<>>],
      [kind |-> "file", type |-> "image/png", str |-> "", file |-> <<FileBlob>>],
      [kind |-> "file", type |-> "image/png", str |-> "", file |-> <<>>],
      [kind |-> "file", type |-> "text/plain", str |-> "", file |-> <<FileBlob>>] }

\* blobToDataUri: the data URI carries the blob's type and its bytes
blobToDataUri(blob) == <<"data:", blob.type, ";base64,", blob.bytes>>

\* fetch(itemString) then response.blob()
FetchedBlob(str) == [type |-> "image/fetched", bytes |-> str]

FilePartOfOwnType(item) == item.file[1]

\* new Blob([file], {type: item.type})
FilePart(item) == [type |-> item.type, bytes |-> item.file[1].bytes]

\* line 203
TextBranch(item) == item.type = "text/plain"

\* lines 213-216
FileBranch(item) == item.kind = "file" /\ item.file # <<>>

\* getAsString queues its callback only for an item of kind 'string'
StartItem(item) ==
    [item |-> item,
     sPath |-> IF TextBranch(item)
               THEN (IF item.kind = "string" THEN "string" ELSE "never")
               ELSE "off",
     fPath |-> IF FileBranch(item) THEN "convert" ELSE "off",
     got |-> <<>>]

SeqsUpTo(S, n) == UNION {[1..k -> S] : k \in 0..n}

\* event.clipboardData: absent, or a DataTransferItemList
Clipboards ==
    {[present |-> FALSE, items |-> <<>>]} \cup
    {[present |-> TRUE, items |-> s] : s \in SeqsUpTo(Items, MaxItems)}

Paste(cd) ==
    /\ editor.alive
    /\ Len(ops) + Len(cd.items) <= MaxItems
    /\ ops' = IF cd.present THEN ops \o [k \in 1..Len(cd.items) |-> StartItem(cd.items[k])] ELSE ops
    /\ calls' = NoCalls
    /\ last' = [NoStep EXCEPT !.ev = "paste", !.clip = cd.present,
                              !.items = cd.items, !.before = Len(ops)]
    /\ UNCHANGED <<phase, props, effectsPending, effDeps, listeners, editor,
                   doc, tree, fnText, fnLinks>>

FetchOnAnyString(str) == TRUE

\* line 205
FetchWanted(str) == isUriImage(str)

\* the callback handed to getAsString (lines 204-210), up to the fetch
StringCallback(i) ==
    /\ i \in 1..Len(ops)
    /\ ops[i].sPath = "string"
    /\ ops' = [ops EXCEPT ![i].sPath =
                 IF FetchWanted(ops[i].item.str) THEN "fetch" ELSE "ignored"]
    /\ calls' = NoCalls
    /\ last' = [NoStep EXCEPT !.ev = "getAsString", !.op = i]
    /\ UNCHANGED <<phase, props, effectsPending, effDeps, listeners, editor,
                   doc, tree, fnText, fnLinks>>

\* await fetch(itemString): a rejection ends the async callback
FetchSettles(i, ok) ==
    /\ i \in 1..Len(ops)
    /\ ops[i].sPath = "fetch"
    /\ ops' = [ops EXCEPT ![i].sPath = IF ok THEN "blob" ELSE "failed"]
    /\ calls' = NoCalls
    /\ last' = [NoStep EXCEPT !.ev = "fetch", !.op = i, !.clip = ok]
    /\ UNCHANGED <<phase, props, effectsPending, effDeps, listeners, editor,
                   doc, tree, fnText, fnLinks>>

\* await response.blob(), then blobToDataUri(blob) starts
BlobSettles(i, ok) ==
    /\ i \in 1..Len(ops)
    /\ ops[i].sPath = "blob"
    /\ ops' = [ops EXCEPT ![i].sPath = IF ok THEN "convert" ELSE "failed"]
    /\ calls' = NoCalls
    /\ last' = [NoStep EXCEPT !.ev = "blob", !.op = i, !.clip = ok]
    /\ UNCHANGED <<phase, props, effectsPending, effDeps, listeners, editor,
                   doc, tree, fnText, fnLinks>>

PhotoPastedByClosure(uri) == <<<<editor.closure.onPhotoPasted, uri>>>>

\* the callback of handlePaste: emitter.emit('photo-pasted', uri)
PhotoPasted(uri) ==
    [k \in 1..Len(Emit(listeners.photo)) |-> <<Emit(listeners.photo)[k], uri>>]

RejectedCallsBack(uri) == PhotoPasted(uri)

\* err => console.error(err)
Rejected(uri) == <<>>

\* blobToDataUri(blob).then(callback, err => console.error(err)), line 208
StringConvertSettles(i, ok) ==
    /\ i \in 1..Len(ops)
    /\ ops[i].sPath = "convert"
    /\ LET uri == blobToDataUri(FetchedBlob(ops[i].item.str))
           made == IF ok THEN PhotoPasted(uri) ELSE Rejected(uri)
       IN /\ ops' = [ops EXCEPT ![i].sPath = IF ok THEN "done" ELSE "failed",
                                ![i].got = @ \o made]
          /\ calls' = [NoCalls EXCEPT !.onPhotoPasted = made]
    /\ last' = [NoStep EXCEPT !.ev = "convert", !.op = i, !.clip = ok]
    /\ UNCHANGED <<phase, props, effectsPending, effDeps, listeners, editor,
                   doc, tree, fnText, fnLinks>>

\* blobToDataUri(new Blob(...)).then(callback, ...), lines 217-219
FileConvertSettles(i, ok) ==
    /\ i \in 1..Len(ops)
    /\ ops[i].fPath = "convert"
    /\ LET uri == blobToDataUri(FilePart(ops[i].item))
           made == IF ok THEN PhotoPasted(uri) ELSE Rejected(uri)
       IN /\ ops' = [ops EXCEPT ![i].fPath = IF ok THEN "done" ELSE "failed",
                                ![i].got = @ \o made]
          /\ calls' = [NoCalls EXCEPT !.onPhotoPasted = made]
    /\ last' = [NoStep EXCEPT !.ev = "convert", !.op = i, !.clip = ok]
    /\ UNCHANGED <<phase, props, effectsPending, effDeps, listeners, editor,
                   doc, tree, fnText, fnLinks>>

\* one step of the asynchronous work of item i
ItemStep(i) ==
    \/ StringCallback(i)
    \/ \E ok \in BOOLEAN : FetchSettles(i, ok)
    \/ \E ok \in BOOLEAN : BlobSettles(i, ok)
    \/ \E ok \in BOOLEAN : StringConvertSettles(i, ok)
    \/ \E ok \in BOOLEAN : FileConvertSettles(i, ok)

(***************************************************************************)
(* Editor JSON (JSONContent)                                               *)
(*   type    : the node type                                               *)
(*   content : <<>> when absent, <<children>> when present                 *)
(*   text    : <<>> when absent, <<characters>> when present               *)
(*   id      : attrs?.id, <<>> when absent, <<characters>> when present    *)
(*   marks   : sequence of [type, href]; href "" is a missing/empty href   *)
(***************************************************************************)
Node(type, text, id, marks) ==
    [type |-> type, content |-> <<>>, text |-> text, id |-> id,
     marks |-> marks]

WithContent(n, children) == [n EXCEPT !.content = <<children>>]

LinkMark(href) == [type |-> "link", href |-> href]
BoldMark == [type |-> "bold", href |-> ""]

RECURSIVE Flatten(_)
\* concatenation of a sequence of sequences
Flatten(ss) == IF ss = <<>> THEN <<>> ELSE Head(ss) \o Flatten(Tail(ss))

\* json.content?.length
HasChildren(json) == json.content # <<>> /\ json.content[1] # <<>>

Children(json) == IF HasChildren(json) THEN json.content[1] ELSE <<>>

ContainerTextNoNewline(parts) == Flatten(parts)

\* lines 153-158: the children's texts in order, then '\n'
ContainerText(parts) == Flatten(parts) \o <<"\n">>

\* json.text || ''
TextOrEmpty(json) == IF json.text = <<>> THEN <<>> ELSE json.text[1]

\* `@${json.attrs?.id || ''}`
MentionText(json) == <<"@">> \o (IF json.id = <<>> THEN <<>> ELSE json.id[1])

RECURSIVE editorJsonToText(_)
editorJsonToText(json) ==
    IF json.type = "doc" \/ json.type = "paragraph"
    THEN ContainerText([k \in 1..Len(Children(json)) |->
                          editorJsonToText(Children(json)[k])])
    ELSE IF json.type = "hardBreak" THEN <<"\n">>
    ELSE IF json.type = "text" THEN TextOrEmpty(json)
    ELSE IF json.type = "mention" THEN MentionText(json)
    ELSE <<>>

\* json.marks?.find(m => m.type === 'link'): <<>> when there is none
FindLink(marks) ==
    LET at == {k \in 1..Len(marks) : marks[k].type = "link"}
    IN IF at = {} THEN <<>>
       ELSE <<marks[CHOOSE k \in at : \A j \in at : k <= j]>>

OwnLinkFirst(below, json) ==
    (IF FindLink(json.marks) # <<>> /\ FindLink(json.marks)[1].href # ""
     THEN <<FindLink(json.marks)[1].href>> ELSE <<>>) \o below

\* lines 177-182: the node's own href is pushed after its children's links
OwnLinkLast(below, json) ==
    below \o (IF FindLink(json.marks) # <<>> /\ FindLink(json.marks)[1].href # ""
              THEN <<FindLink(json.marks)[1].href>> ELSE <<>>)

RECURSIVE editorJsonToLinks(_)
editorJsonToLinks(json) ==
    OwnLinkLast(Flatten([k \in 1..Len(Children(json)) |->
                           editorJsonToLinks(Children(json)[k])]), json)

Whitespace == {" ", "\n"}

RECURSIVE TrimStart(_)
TrimStart(s) ==
    IF s # <<>> /\ Head(s) \in Whitespace THEN TrimStart(Tail(s)) ELSE s

RECURSIVE TrimEnd(_)
TrimEnd(s) ==
    IF s # <<>> /\ s[Len(s)] \in Whitespace
    THEN TrimEnd(SubSeq(s, 1, Len(s) - 1)) ELSE s

\* String.prototype.trim
Trim(s) == TrimEnd(TrimStart(s))

RichTextUntrimmed(json) == editorJsonToText(json)

\* new RichText({text: editorJsonToText(json).trim()}), line 124
RichTextOf(json) == Trim(editorJsonToText(json))

Range(s) == {s[k] : k \in 1..Len(s)}

(***************************************************************************)
(* onUpdate (lines 121-132)                                                *)
(***************************************************************************)
\* lines 128-131; suggestedLinks is the variable the onUpdate closure holds,
\* the prop of the render in which useEditor built the editor
NotifyLinks(newLinks) ==
    IF newLinks # editor.closure.suggestedLinks THEN <<newLinks>> ELSE <<>>

Update(json) ==
    /\ editor.alive
    /\ doc' = json
    /\ calls' = [NoCalls EXCEPT
                   !.setRichText = <<RichTextOf(json)>>,
                   !.onSuggestedLinksChanged =
                       NotifyLinks(Range(editorJsonToLinks(json)))]
    /\ last' = [NoStep EXCEPT !.ev = "update"]
    /\ UNCHANGED <<phase, props, effectsPending, effDeps, listeners, editor,
                   ops, tree, fnText, fnLinks>>

(***************************************************************************)
(* Inputs: documents the editor produces, and arbitrary JSON trees         *)
(***************************************************************************)
DocNode == Node("doc", <<>>, <<>>, <<>>)
ParagraphNode == Node("paragraph", <<>>, <<>>, <<>>)

Inlines ==
    { Node("text", <<<<" ", "a", " ">>>>, <<>>, <<>>),
      Node("text", <<<<"b">>>>, <<>>, <<LinkMark("x")>>),
      Node("text", <<<<"c">>>>, <<>>, <<LinkMark("y")>>) }

\* paragraphs of k inline nodes
Paragraphs(k) ==
    IF k = 0 THEN {ParagraphNode}
    ELSE {WithContent(ParagraphNode, s) : s \in [1..k -> Inlines]}

RECURSIVE ParagraphForests(_)
\* non-empty sequences of paragraphs of n nodes in all
ParagraphForests(n) ==
    IF n = 0 THEN {<<>>}
    ELSE UNION { {<<q>> \o f : q \in Paragraphs(k - 1),
                               f \in ParagraphForests(n - k)} : k \in 1..n }

\* what getJSON returns: a doc of paragraphs of inline nodes
EditorDocs(n) ==
    {WithContent(DocNode, f) :
        f \in UNION {ParagraphForests(k) : k \in 1..n}}

EmptyDoc == WithContent(DocNode, <<ParagraphNode>>)

TextLabels ==
    { DocNode, ParagraphNode,
      Node("hardBreak", <<>>, <<>>, <<>>),
      Node("text", <<<<"a">>>>, <<>>, <<>>),
      Node("text", <<>>, <<>>, <<>>),
      Node("mention", <<>>, <<<<"m">>>>, <<>>),
      Node("mention", <<>>, <<>>, <<>>),
      Node("image", <<<<"i">>>>, <<<<"j">>>>, <<>>) }

LinkLabels ==
    { ParagraphNode,
      Node("text", <<<<"b">>>>, <<>>, <<LinkMark("x")>>),
      Node("text", <<<<"c">>>>, <<>>, <<BoldMark, LinkMark("y"), LinkMark("x")>>),
      Node("text", <<<<"d">>>>, <<>>, <<LinkMark(""), LinkMark("x")>>),
      Node("paragraph", <<>>, <<>>, <<LinkMark("y")>>),
      Node("image", <<>>, <<>>, <<LinkMark("x")>>) }

RECURSIVE TreesOf(_, _)
RECURSIVE ForestsOf(_, _)
\* trees of exactly n nodes labelled from L; a leaf has no content, and a
\* paragraph leaf may also have an empty content array
TreesOf(L, n) ==
    IF n = 1 THEN L \cup {WithContent(ParagraphNode, <<>>)}
    ELSE {WithContent(l, f) : l \in L, f \in ForestsOf(L, n - 1)}

ForestsOf(L, n) ==
    IF n = 0 THEN {<<>>}
    ELSE UNION { {<<t>> \o f : t \in TreesOf(L, k),
                               f \in ForestsOf(L, n - k)} : k \in 1..n }

\* trees of at most n nodes
TreesUpTo(L, n) == UNION {TreesOf(L, k) : k \in 1..n}

ApplyText ==
    /\ fnText = <<>>
    /\ fnText' = <<editorJsonToText(tree)>>
    /\ UNCHANGED <<phase, props, effectsPending, effDeps, listeners, editor,
                   ops, calls, last, doc, tree, fnLinks>>

ApplyLinks ==
    /\ fnLinks = <<>>
    /\ fnLinks' = <<editorJsonToLinks(tree)>>
    /\ UNCHANGED <<phase, props, effectsPending, effDeps, listeners, editor,
                   ops, calls, last, doc, tree, fnText>>

InitComponent ==
    /\ phase = "mounted"
    /\ props = InitProps
    /\ effectsPending = TRUE
    /\ effDeps = [publish |-> <<>>, photo |-> <<>>, editor |-> <<>>]
    /\ listeners = [publish |-> <<>>, photo |-> <<>>]
    /\ editor = [alive |-> FALSE, inst |-> 0, closure |-> InitProps]
    /\ ops = <<>>
    /\ calls = NoCalls
    /\ last = NoStep

Init ==
    /\ InitComponent
    /\ doc = EmptyDoc
    /\ tree = DocNode
    /\ fnText = <<>>
    /\ fnLinks = <<>>

CallbackProps ==
    {p \in [onPressPublish : PublishCbs, onPhotoPasted : PhotoCbs,
            modeClass : ModeClasses, suggestedLinks : {{}}] : TRUE}

Next ==
    \/ \E p \in CallbackProps : Render(p)
    \/ FlushEffects
    \/ Unmount
    \/ \E e \in KeyEvents : KeyDown(e)

Spec == Init /\ [][Next]_vars

PhotoProps ==
    {p \in [onPressPublish : {"publishA"}, onPhotoPasted : PhotoCbs,
            modeClass : {"ProseMirror-light"}, suggestedLinks : {{}}] : TRUE}

NextPaste ==
    \/ \E p \in PhotoProps : Render(p)
    \/ FlushEffects
    \/ Unmount
    \/ \E cd \in Clipboards : Paste(cd)
    \/ \E i \in 1..MaxItems : ItemStep(i)

SpecPaste == Init /\ [][NextPaste]_vars

\* every pending promise and queued callback eventually settles
FairPaste == SpecPaste /\ \A i \in 1..MaxItems : WF_vars(ItemStep(i))

LinkProps ==
    {p \in [onPressPublish : {"publishA"}, onPhotoPasted : {"photoA"},
            modeClass : ModeClasses, suggestedLinks : SUBSET Hrefs] : TRUE}

NextUpdate ==
    \/ \E p \in LinkProps : Render(p)
    \/ FlushEffects
    \/ Unmount
    \/ \E json \in EditorDocs(MaxNodes) : Update(json)

SpecUpdate == Init /\ [][NextUpdate]_vars

InitText ==
    /\ InitComponent
    /\ doc = EmptyDoc
    /\ tree \in TreesUpTo(TextLabels, MaxNodes)
    /\ fnText = <<>>
    /\ fnLinks = <<>>

SpecText == InitText /\ [][ApplyText]_vars

InitLinks ==
    /\ InitComponent
    /\ doc = EmptyDoc
    /\ tree \in TreesUpTo(LinkLabels, MaxNodes)
    /\ fnText = <<>>
    /\ fnLinks = <<>>

SpecLinks == InitLinks /\ [][ApplyLinks]_vars

(***************************************************************************)
(* Properties                                                              *)
(***************************************************************************)
\* C1: a keydown with (metaKey or ctrlKey) and code 'Enter' invokes the one
\* onPressPublish callback registered on the emitter exactly once (the one
\* the publish effect last added); any other keydown invokes none.
C1_PublishOnShortcut ==
    last.ev = "keydown" =>
        IF (last.key.metaKey \/ last.key.ctrlKey) /\ last.key.code = "Enter"
        THEN /\ Len(listeners.publish) = 1
             /\ listeners.publish = effDeps.publish
             /\ calls.onPressPublish = <<listeners.publish[1]>>
        ELSE calls.onPressPublish = <<>>

\* the shortcut pressed after onPressPublish was replaced and re-registered
C1_Witness ==
    /\ last.ev = "keydown"
    /\ last.key.ctrlKey /\ ~last.key.metaKey /\ last.key.code = "Enter"
    /\ editor.closure.onPressPublish = "publishA"
    /\ calls.onPressPublish = <<"publishB">>

C6_Listeners ==
    /\ (phase = "mounted" /\ ~effectsPending) =>
          /\ listeners.publish = <<props.onPressPublish>>
          /\ listeners.photo = <<props.onPhotoPasted>>
    /\ phase = "unmounted" =>
          /\ listeners.publish = <<>>
          /\ listeners.photo = <<>>

C6_EditorKept ==
    (editor.alive /\ phase' = "mounted"
        /\ props.modeClass = editor.closure.modeClass) => editor' = editor

\* C6: once the effects have run the emitter holds exactly one 'publish' and
\* one 'photo-pasted' listener, the latest prop values; after unmount it
\* holds none; and no step re-creates the editor while modeClass is the one
\* the editor was created with, whatever the callback props have become.
C6_MemoizedEmitter == [](C6_Listeners) /\ [][C6_EditorKept]_vars

\* both callback props replaced, effects run, the first editor still in place
C6_Witness ==
    /\ last.ev = "effects"
    /\ props.onPressPublish = "publishB" /\ props.onPhotoPasted = "photoB"
    /\ editor.alive /\ editor.inst = 1
    /\ editor.closure.onPressPublish = "publishA"
    /\ editor.closure.onPhotoPasted = "photoA"
    /\ listeners = [publish |-> <<"publishB">>, photo |-> <<"photoB">>]

IsFileWithBlob(i) ==
    i <= Len(ops) /\ ops[i].item.kind = "file" /\ ops[i].item.file # <<>>

C2_Delivered ==
    \A i \in 1..Len(ops) :
        /\ IsFileWithBlob(i) =>
              \/ ops[i].fPath = "convert" /\ ops[i].got = <<>>
              \/ ops[i].fPath = "failed" /\ ops[i].got = <<>>
              \/ /\ ops[i].fPath = "done"
                 /\ \/ phase = "unmounted" /\ ops[i].got = <<>>
                    \/ \E cb \in PhotoCbs :
                          ops[i].got = << <<cb, <<"data:", ops[i].item.type,
                                                  ";base64,", "FILEBYTES">> >> >>
        /\ (ops[i].item.kind # "file" /\ ops[i].item.type # "text/plain") =>
              /\ ops[i].got = <<>>
              /\ ops[i].sPath = "off" /\ ops[i].fPath = "off"

\* C2: every pasted item of kind 'file' whose getAsFile gives a Blob has its
\* conversion settle; when it succeeds while the component is mounted
\* onPhotoPasted has been invoked exactly once for it, with the data URI of
\* the item's bytes under the item's type; an item that is neither a file
\* nor text/plain starts nothing and causes no call.
C2_FilePaste ==
    /\ [](C2_Delivered)
    /\ \A i \in 1..MaxItems :
          (IsFileWithBlob(i) /\ ops[i].fPath = "convert")
              ~> (IsFileWithBlob(i) /\ ops[i].fPath \in {"done", "failed"})

\* two file items of one paste, both delivered
C2_Witness ==
    /\ phase = "mounted"
    /\ Len(ops) = 2
    /\ \A i \in 1..2 : IsFileWithBlob(i) /\ ops[i].fPath = "done"
                          /\ Len(ops[i].got) = 1
    /\ ops[1].item.type # ops[2].item.type

Fetched(i) ==
    \/ ops[i].sPath \in {"fetch", "blob", "convert", "done", "failed"}
    \/ ops[i].got # <<>>

\* C3 as stated: for an item of type 'text/plain', a fetch or an
\* onPhotoPasted call happens only if isUriImage holds of its string.
C3_AnyTextPlainItem ==
    \A i \in 1..Len(ops) :
        ops[i].item.type = "text/plain" =>
            (Fetched(i) => isUriImage(ops[i].item.str))

\* C3 (amended): for an item of kind 'string' and type 'text/plain', a fetch
\* or an onPhotoPasted call happens only if isUriImage holds of its string;
\* when it does not, the item is dropped once its string arrives.
C3_StringTextPlainItem ==
    \A i \in 1..Len(ops) :
        (ops[i].item.kind = "string" /\ ops[i].item.type = "text/plain") =>
            /\ Fetched(i) => isUriImage(ops[i].item.str)
            /\ ~isUriImage(ops[i].item.str) =>
                  /\ ops[i].sPath \in {"string", "ignored"}
                  /\ ops[i].got = <<>>
            /\ ops[i].fPath = "off"

\* a pasted non-image string was ignored, a pasted image URI was delivered
C3_Witness ==
    /\ Len(ops) = 2
    /\ ops[1].item.kind = "string" /\ ops[1].item.str = "hello"
    /\ ops[1].sPath = "ignored"
    /\ ops[2].item.kind = "string" /\ ops[2].item.type = "text/plain"
    /\ ops[2].sPath = "done" /\ Len(ops[2].got) = 1

\* C9: a conversion that succeeds calls exactly the callback registered on
\* the emitter at that moment, once (the old one while the effect of a
\* replaced prop is still pending, the new one after it ran), and none after
\* unmount; no item is ever delivered twice.
C9_LateCompletion ==
    /\ (last.ev = "convert" /\ last.clip) =>
          /\ phase = "unmounted" => calls.onPhotoPasted = <<>>
          /\ phase = "mounted" =>
                /\ Len(calls.onPhotoPasted) = 1
                /\ <<calls.onPhotoPasted[1][1]>> = listeners.photo
                /\ listeners.photo = effDeps.photo
                /\ ~effectsPending =>
                      calls.onPhotoPasted[1][1] = props.onPhotoPasted
                /\ ops[last.op].got = calls.onPhotoPasted
    /\ \A i \in 1..Len(ops) : Len(ops[i].got) <= 1

\* the second item of a paste completes first, after onPhotoPasted was
\* replaced, and is delivered to the new callback
C9_Witness ==
    /\ last.ev = "convert" /\ last.clip /\ last.op = 2
    /\ Len(ops) = 2
    /\ ops[1].fPath = "convert"
    /\ editor.closure.onPhotoPasted = "photoA"
    /\ Len(ops[2].got) = 1 /\ ops[2].got[1][1] = "photoB"

\* C10: a paste without clipboardData starts nothing and calls nothing; a
\* paste with items starts the work of every item and calls nothing itself;
\* a failed fetch or conversion calls nothing, delivers nothing for its
\* item; onError, setRichText and onSuggestedLinksChanged are never called
\* on the paste path.
C10_PasteFailures ==
    /\ (last.ev = "paste" /\ ~last.clip) =>
          Len(ops) = last.before /\ calls = NoCalls
    /\ (last.ev = "paste" /\ last.clip) =>
          /\ Len(ops) = last.before + Len(last.items)
          /\ \A k \in 1..Len(last.items) :
                LET o == ops[last.before + k] IN
                /\ o.item = last.items[k]
                /\ (o.item.kind = "file" /\ o.item.file # <<>>) =>
                      o.fPath = "convert"
                /\ (o.item.kind = "string" /\ o.item.type = "text/plain") =>
                      o.sPath = "string"
          /\ calls = NoCalls
    /\ (last.ev \in {"fetch", "blob", "convert"} /\ ~last.clip) =>
          /\ calls = NoCalls
          /\ ops[last.op].got = <<>>
    /\ last.ev \in {"paste", "getAsString", "fetch", "blob", "convert"} =>
          /\ calls.onError = <<>>
          /\ calls.setRichText = <<>>
          /\ calls.onSuggestedLinksChanged = <<>>

\* the first item's conversion failed, the second was delivered afterwards
C10_Witness ==
    /\ Len(ops) = 2
    /\ ops[1].fPath = "failed" /\ ops[1].got = <<>>
    /\ last.ev = "convert" /\ last.op = 2 /\ last.clip
    /\ Len(ops[2].got) = 1

IsWhitespace(c) == c = " " \/ c = "\n"

\* C4: an update invokes setRichText exactly once, with the text of the
\* document less its leading and trailing whitespace: the text handed over
\* is what remains of editorJsonToText(doc) after dropping a whitespace-only
\* prefix and suffix, and neither begins nor ends with whitespace.
C4_TrimmedRichText ==
    last.ev = "update" =>
        /\ Len(calls.setRichText) = 1
        /\ LET full == editorJsonToText(doc)
               t == calls.setRichText[1]
           IN /\ \E a \in 0..Len(full) :
                    /\ a + Len(t) <= Len(full)
                    /\ t = SubSeq(full, a + 1, a + Len(t))
                    /\ \A k \in 1..Len(full) :
                          (k <= a \/ k > a + Len(t)) => IsWhitespace(full[k])
              /\ t # <<>> => ~IsWhitespace(t[1]) /\ ~IsWhitespace(t[Len(t)])

\* an update whose document text has whitespace at both ends and inside
C4_Witness ==
    /\ last.ev = "update"
    /\ editorJsonToText(doc) = <<" ", "a", " ", "b", "\n", "\n">>
    /\ calls.setRichText = << <<"a", " ", "b">> >>

\* C5 as stated: an update notifies onSuggestedLinksChanged, once and with
\* the document's link set, if and only if that set differs from the
\* component's current suggestedLinks prop (the prop of the latest render,
\* whose effects have run).
C5_NotifiesIffChanged ==
    (last.ev = "update" /\ ~effectsPending) =>
        LET found == Range(editorJsonToLinks(doc))
        IN calls.onSuggestedLinksChanged =
              IF found # props.suggestedLinks THEN <<found>> ELSE <<>>

\* C7: editorJsonToText by node type: doc/paragraph give the children's
\* results in order then one newline, hardBreak a newline, text its text or
\* nothing, mention '@' then its id or '@' alone, anything else nothing.
C7_TextByType ==
    fnText # <<>> =>
        LET out == fnText[1]
            kids == IF tree.content = <<>> THEN <<>> ELSE tree.content[1]
        IN CASE tree.type \in {"doc", "paragraph"} ->
                  out = Flatten([k \in 1..Len(kids) |->
                                    editorJsonToText(kids[k])]) \o <<"\n">>
             [] tree.type = "hardBreak" -> out = <<"\n">>
             [] tree.type = "text" ->
                  out = IF tree.text = <<>> THEN <<>> ELSE tree.text[1]
             [] tree.type = "mention" ->
                  out = IF tree.id = <<>> THEN <<"@">>
                        ELSE <<"@">> \o tree.id[1]
             [] OTHER -> out = <<>>

\* a doc of a paragraph holding a mention, converted
C7_Witness ==
    /\ tree.type = "doc"
    /\ fnText = << <<"@", "m", "\n", "\n">> >>

RECURSIVE PostOrder(_)
\* the nodes of a tree, children (in document order) before their parent
PostOrder(json) ==
    LET kids == IF json.content = <<>> THEN <<>> ELSE json.content[1]
    IN Flatten([k \in 1..Len(kids) |-> PostOrder(kids[k])]) \o <<json>>

LinkMarksOf(n) == SelectSeq(n.marks, LAMBDA m : m.type = "link")

CarriesLink(n) == \E k \in 1..Len(n.marks) :
                     n.marks[k].type = "link" /\ n.marks[k].href # ""

FirstLinkHasHref(n) == LinkMarksOf(n) # <<>> /\ LinkMarksOf(n)[1].href # ""

FirstHrefs(nodes) == [k \in 1..Len(nodes) |-> LinkMarksOf(nodes[k])[1].href]

\* C8 as stated: one entry, the href of the first link mark, for every node
\* carrying a link mark with a non-empty href, in post-order.
C8_EveryLinkedNode ==
    fnLinks # <<>> =>
        fnLinks[1] = FirstHrefs(SelectSeq(PostOrder(tree), CarriesLink))

\* C8 (amended): one entry, the href of the first link mark, for every node
\* whose first link mark has a non-empty href, in post-order (descendants
\* before the node, siblings in document order), duplicates kept.
C8_FirstLinkOfNode ==
    fnLinks # <<>> =>
        fnLinks[1] = FirstHrefs(SelectSeq(PostOrder(tree), FirstLinkHasHref))

\* a linked container over two linked texts, one with several marks
C8_Witness ==
    /\ fnLinks = << <<"x", "y", "y">> >>
    /\ tree.type = "paragraph"
    /\ Len(tree.marks) = 1

=============================================================================
